---- MODULE Spec2Model ----
(***************************************************************************)
(* A model of package death (src/death.go): the Death controller with its  *)
(* listener goroutine, the blocking entry points WaitForDeath and          *)
(* WaitForDeathWithFunc, the manual trigger FallOnSword, and closeInMass   *)
(* with its closeObjects goroutines, completion channel and timer.         *)
(*                                                                         *)
(* Goroutines are interleaved one step at a time.  A step is one channel   *)
(* operation, one WaitGroup operation or one call of a collaborator        *)
(* (Close, the callback, a logger), together with the local computation    *)
(* that follows it up to the next such operation.                          *)
(***************************************************************************)
EXTENDS Integers, Sequences, FiniteSets

(***************************************************************************)
(* Bounds of the model.                                                    *)
(***************************************************************************)
\* The largest number of closers handed to the controller, summed over calls.
MaxClosers == 2

\* The goroutines of the host that call an entry point, each once.
Callers == {"main", "aux"}

(***************************************************************************)
(* The host's closers.  A closer is an io.Closer value: its dynamic type,  *)
(* as reflect sees it, and what its Close does.  NilCloser is the nil      *)
(* interface value, which has no dynamic type and no Close.                *)
(***************************************************************************)
NoType == [kind |-> "Invalid", name |-> "", pkgPath |-> ""]

ConnType == [kind |-> "Struct", name |-> "Conn", pkgPath |-> "net"]

\* *net.Conn-like: a pointer to a named struct; Close returns, with nil or
\* with an error.
PtrCloser == [type |-> [kind |-> "Ptr", name |-> "", pkgPath |-> ""], elem |-> ConnType, close |-> "returns"]

\* A value of an unnamed struct type; Close never returns.
HangCloser == [type |-> [kind |-> "Struct", name |-> "", pkgPath |-> ""], elem |-> NoType, close |-> "never"]

\* The nil io.Closer.
NilCloser == [type |-> NoType, elem |-> NoType, close |-> "none"]

Closers == {PtrCloser, HangCloser, NilCloser}

\* The argument lists of WaitForDeath: every sequence of at most n closers.
Closables(n) == UNION {[1..k -> Closers] : k \in 0..n}

(***************************************************************************)
(* State.                                                                  *)
(***************************************************************************)
VARIABLES
    sigChannel,   \* Death.sigChannel: the signals buffered for the listener
    callChannel,  \* Death.callChannel: the manual triggers buffered
    wg,           \* Death.wg: the WaitGroup's counter
    listener,     \* the listenForSignal goroutine: "running" or "exited"
    fired,        \* history: a signal has been relayed or FallOnSword called
    pc,           \* where each caller is
    call,         \* each caller's entry point and arguments
    count,        \* closeInMass: count
    sentToClose,  \* closeInMass: the map sentToClose, index -> closer
    doneClosers,  \* closeInMass: the channel doneClosers
    timer,        \* closeInMass: timer, "none", "armed" or "fired"
    task,         \* the closeObjects goroutine of each index of a batch
    result,       \* what the entry point returned
    warned,       \* log: the count announced by the Warn line, per batch
    failed,       \* log: the "Failed to close" Error lines, per batch and index
    closeErrs,    \* log: the indices whose Close error was logged by closeObjects
    received,     \* history: the indices whose completion the coordinator received
    atFire,       \* history: when the batch's timer fired, was every completion sent
    fcalls,       \* history: how often each caller's f was called and returned
    closed        \* history: how often Close was called, per batch and index

vars == <<sigChannel, callChannel, wg, listener, fired, pc, call, count,
          sentToClose, doneClosers, timer, task, result, warned, failed,
          closeErrs, received, atFire, fcalls, closed>>

trigger == <<sigChannel, callChannel, wg, listener, fired>>

batch == <<count, sentToClose, doneClosers, timer, task, warned, failed,
           closeErrs, received, atFire>>

NoCall == [op |-> "none", closable |-> <<>>]

\* The empty map, and the map operations of Go used below.
EmptyMap == [x \in {} |-> 0]

MapPut(m, k, v) == [x \in (DOMAIN m) \cup {k} |-> IF x = k THEN v ELSE m[x]]

\* A delete that removes nothing.
MapKeep(m, k) == m

\* A delete that empties the map.
MapClear(m, k) == EmptyMap

MapDelete(m, k) == [x \in (DOMAIN m) \ {k} |-> m[x]]

NoCalls == [invoked |-> 0, returned |-> 0]

NoSnapshot == [fired |-> FALSE, allSent |-> FALSE]

\* len(closable) of caller c's call.
N(c) == Len(call[c].closable)

\* The indices of caller c's batch.
Indices(c) == 0 .. (N(c) - 1)

\* closable[i], Go's index.
Closable(c, i) == call[c].closable[i + 1]

\* An unrecovered panic ends the process: no goroutine takes a step after it.
Crashed == \E c \in Callers : pc[c] = "panic"

(***************************************************************************)
(* NewDeath: the state after construction.                                 *)
(***************************************************************************)
\* make(chan os.Signal, 1) and make(chan struct{}, 1)
ChanCap == 1

Init ==
    /\ sigChannel = <<>>
    /\ callChannel = <<>>
    /\ wg = 1
    /\ listener = "running"
    /\ fired = FALSE
    /\ pc = [c \in Callers |-> "idle"]
    /\ call = [c \in Callers |-> NoCall]
    /\ count = [c \in Callers |-> 0]
    /\ sentToClose = [c \in Callers |-> EmptyMap]
    /\ doneClosers = [c \in Callers |-> <<>>]
    /\ timer = [c \in Callers |-> "none"]
    /\ task = [c \in Callers |-> EmptyMap]
    /\ result = [c \in Callers |-> "none"]
    /\ warned = [c \in Callers |-> -1]
    /\ failed = [c \in Callers |-> EmptyMap]
    /\ closeErrs = [c \in Callers |-> {}]
    /\ received = [c \in Callers |-> {}]
    /\ atFire = [c \in Callers |-> NoSnapshot]
    /\ fcalls = [c \in Callers |-> NoCalls]
    /\ closed = [c \in Callers |-> EmptyMap]

(***************************************************************************)
(* The trigger: signal delivery, FallOnSword and the listener.             *)
(***************************************************************************)
\* A send that never blocks: the value is buffered if the channel has room
\* and dropped otherwise (select with a default case).
SendOrDrop(ch, v) == IF Len(ch) < ChanCap THEN Append(ch, v) ELSE ch

\* The runtime relays a subscribed signal to sigChannel (signal.Notify); the
\* relay does not block: a signal that finds the buffer full is dropped.
Notify ==
    /\ ~Crashed
    /\ sigChannel' = SendOrDrop(sigChannel, "signal")
    /\ fired' = TRUE
    /\ UNCHANGED <<callChannel, wg, listener, pc, call, result, batch,
                 fcalls, closed>>

\* A send with no default case: it waits for room in the buffer.
BlockingPost ==
    /\ Len(callChannel) < ChanCap
    /\ callChannel' = Append(callChannel, "call")

\* FallOnSword's select: post to callChannel, or do nothing by default.
FallOnSwordSelect ==
    callChannel' = SendOrDrop(callChannel, "call")

FallOnSword ==
    /\ ~Crashed
    /\ FallOnSwordSelect
    /\ fired' = TRUE
    /\ UNCHANGED <<sigChannel, wg, listener, pc, call, result, batch,
                 fcalls, closed>>

\* The listener's select: receive from sigChannel or from callChannel.
ListenerRecv ==
    \/ /\ sigChannel # <<>>
       /\ sigChannel' = Tail(sigChannel)
       /\ UNCHANGED callChannel
    \/ /\ callChannel # <<>>
       /\ callChannel' = Tail(callChannel)
       /\ UNCHANGED sigChannel

\* A case that leaves the select but not the for loop around it (a break
\* where the return is): the goroutine goes on listening.
ListenerLoops ==
    UNCHANGED <<wg, listener>>

\* Either case returns, and the deferred wg.Done() runs.
ListenerReturns ==
    /\ listener' = "exited"
    /\ wg' = wg - 1

\* listenForSignal: receive one trigger, then return.
listenForSignal ==
    /\ ~Crashed
    /\ listener = "running"
    /\ ListenerRecv
    /\ ListenerReturns
    /\ UNCHANGED <<fired, pc, call, result, batch,
                 fcalls, closed>>

(***************************************************************************)
(* closeInMass: the start of a batch.                                      *)
(***************************************************************************)
\* getPkgPath: reflect.TypeOf(c), its Elem() if it is a pointer, then the
\* type's Name() and PkgPath().  TypeOf(nil) is the nil Type, and calling
\* Kind() on it panics.
getPkgPath(c) ==
    IF c.type = NoType
    THEN [panics |-> TRUE, name |-> "", pkgPath |-> ""]
    ELSE LET t == IF c.type.kind = "Ptr" THEN c.elem ELSE c.type
         IN  [panics |-> FALSE, name |-> t.name, pkgPath |-> t.pkgPath]

\* A closer struct that leaves Index at its zero value.
MkCloserNoIndex(i, c) ==
    [Index |-> 0, C |-> c, Name |-> getPkgPath(c).name, PKGPath |-> getPkgPath(c).pkgPath]

\* The closer struct of index i wrapping c.
MkCloser(i, c) ==
    [Index |-> i, C |-> c, Name |-> getPkgPath(c).name, PKGPath |-> getPkgPath(c).pkgPath]

RECURSIVE closeInMassRange(_, _, _)
\* The range loop over closable from index i on: getPkgPath, the closer,
\* go closeObjects, and the entry of sentToClose.  st is what the loop has
\* built so far; a panic of getPkgPath ends it where it is.
closeInMassRange(closable, i, st) ==
    IF i = Len(closable) THEN st
    ELSE LET c == closable[i + 1]
         IN  IF getPkgPath(c).panics
             THEN [st EXCEPT !.panics = TRUE]
             ELSE closeInMassRange(closable, i + 1,
                      [st EXCEPT !.task = MapPut(@, i, "spawned"),
                                 !.sentToClose = MapPut(@, i, MkCloser(i, c))])

(***************************************************************************)
(* The entry points.                                                       *)
(***************************************************************************)
RECURSIVE TotalClosers(_)
\* The closers handed over so far, by the callers in S.
TotalClosers(S) ==
    IF S = {} THEN 0
    ELSE LET c == CHOOSE x \in S : TRUE IN N(c) + TotalClosers(S \ {c})

\* A wait that lets the caller through whatever the counter is.
WaitSkipped == TRUE

\* A wait that lets one caller through and holds the others back, as a
\* receive from a channel that carries a single token would.
WaitReturnsOnce ==
    wg = 0 /\ \A c \in Callers : pc[c] \in {"idle", "wait"}

\* wg.Wait() returns once the counter is zero.
WaitReturns == wg = 0

\* The test with zero closers let through to closeInMass.
HasClosersOrNone(c) == N(c) >= 0

\* WaitForDeath's test of count.
HasClosers(c) == N(c) > 0

\* A goroutine of the host calls WaitForDeath(closable...) and reaches wg.Wait().
WaitForDeathCall(c, closable) ==
    /\ ~Crashed
    /\ pc[c] = "idle"
    /\ TotalClosers(Callers) + Len(closable) <= MaxClosers
    /\ call' = [call EXCEPT ![c] = [op |-> "WaitForDeath", closable |-> closable]]
    /\ pc' = [pc EXCEPT ![c] = "wait"]
    /\ UNCHANGED <<trigger, fcalls, closed, result, batch>>

\* wg.Wait() returns; WaitForDeath logs, counts, and returns nil or goes into
\* closeInMass: count, the map, the channel, the range loop that starts the
\* closeObjects goroutines, and the timer.  The caller is then at the select.
WaitForDeath(c) ==
    /\ ~Crashed
    /\ pc[c] = "wait"
    /\ call[c].op = "WaitForDeath"
    /\ WaitReturns
    /\ IF HasClosers(c)
       THEN LET st == closeInMassRange(call[c].closable, 0,
                          [panics |-> FALSE, task |-> EmptyMap, sentToClose |-> EmptyMap])
            IN  /\ count' = [count EXCEPT ![c] = N(c)]
                /\ doneClosers' = [doneClosers EXCEPT ![c] = <<>>]
                /\ task' = [task EXCEPT ![c] = st.task]
                /\ sentToClose' = [sentToClose EXCEPT ![c] = st.sentToClose]
                /\ closed' = [closed EXCEPT ![c] = [i \in DOMAIN st.task |-> 0]]
                /\ IF st.panics
                   THEN /\ pc' = [pc EXCEPT ![c] = "panic"]
                        /\ UNCHANGED timer
                   ELSE /\ pc' = [pc EXCEPT ![c] = "select"]
                        /\ timer' = [timer EXCEPT ![c] = "armed"]
                /\ UNCHANGED result
       ELSE /\ pc' = [pc EXCEPT ![c] = "done"]
            /\ result' = [result EXCEPT ![c] = "nil"]
            /\ UNCHANGED <<count, sentToClose, doneClosers, task, timer, closed>>
    /\ UNCHANGED <<trigger, fcalls, call, warned, failed, closeErrs, received,
                   atFire>>

\* A goroutine of the host calls WaitForDeathWithFunc(f) and reaches wg.Wait().
WaitForDeathWithFuncCall(c) ==
    /\ ~Crashed
    /\ pc[c] = "idle"
    /\ call' = [call EXCEPT ![c] = [op |-> "WaitForDeathWithFunc", closable |-> <<>>]]
    /\ pc' = [pc EXCEPT ![c] = "wait"]
    /\ UNCHANGED <<trigger, fcalls, closed, result, batch>>

\* f started in a goroutine of its own (go f()): the caller goes on to its
\* return without waiting for f.
AfterGoF == "done"

\* Where the caller is after the statement f(): inside f, until f returns.
AfterF == "callback"

\* wg.Wait() returns; WaitForDeathWithFunc logs and calls f.
WaitForDeathWithFunc(c) ==
    /\ ~Crashed
    /\ pc[c] = "wait"
    /\ call[c].op = "WaitForDeathWithFunc"
    /\ WaitReturns
    /\ fcalls' = [fcalls EXCEPT ![c].invoked = @ + 1]
    /\ pc' = [pc EXCEPT ![c] = AfterF]
    /\ UNCHANGED <<trigger, closed, call, result, batch>>

\* f returns, and WaitForDeathWithFunc with it.  Nothing makes f return.
CallbackReturns(c) ==
    /\ ~Crashed
    /\ pc[c] = "callback"
    /\ pc' = [pc EXCEPT ![c] = "done"]
    /\ result' = [result EXCEPT ![c] = "returned"]
    /\ fcalls' = [fcalls EXCEPT ![c].returned = @ + 1]
    /\ UNCHANGED <<trigger, closed, call, batch>>

(***************************************************************************)
(* closeInMass: the select loop, and closeObjects.                         *)
(***************************************************************************)
\* The indices of batch c whose closeObjects has sent its completion.
Posted(c) == {i \in DOMAIN task[c] : task[c][i] = "sent"}

\* The indices of batch c whose Close returns.
Returning(c) == {i \in DOMAIN task[c] : Closable(c, i).close = "returns"}

\* The timeout elapses: the runtime makes timer.C ready.
TimerFires(c) ==
    /\ ~Crashed
    /\ timer[c] = "armed"
    /\ timer' = [timer EXCEPT ![c] = "fired"]
    /\ atFire' = [atFire EXCEPT ![c] = [fired |-> TRUE, allSent |-> Posted(c) = Returning(c)]]
    /\ UNCHANGED <<trigger, fcalls, closed, pc, call, result, count, sentToClose,
                   doneClosers, task, warned, failed, closeErrs, received>>

\* A timer case that is only taken when nothing is left to wait for.
TimerCaseWhenIdle(c) == timer[c] = "fired" /\ count[c] = 0

\* The timer case can be taken once timer.C is ready, whatever is pending.
TimerCaseReady(c) == timer[c] = "fired"

\* fmt.Errorf("failed to close all objects")
TimeoutError == "failed to close all objects"

\* An error that names the entries still in the map.
closeInMassErrorWithPending(m) ==
    <<TimeoutError, {<<m[i].PKGPath, m[i].Name>> : i \in DOMAIN m}>>

\* The error of the timer case: fmt.Errorf is given the message alone, the
\* map m of what is still pending is not among its arguments.
closeInMassError(m) == TimeoutError

\* A loop over the map that stops after its first entry.
FailedLinesFirstOnly(m) ==
    [i \in {j \in DOMAIN m : \A k \in DOMAIN m : j <= k} |-> 1]

\* One "Failed to close" line per entry of the map.
FailedLines(m) == [i \in DOMAIN m |-> 1]

\* The timer case: the Warn line, one Error line per entry of sentToClose,
\* and the error.  select takes a ready case whether or not the other case
\* is ready too.
closeInMassTimeout(c) ==
    /\ ~Crashed
    /\ pc[c] = "select"
    /\ TimerCaseReady(c)
    /\ warned' = [warned EXCEPT ![c] = count[c]]
    /\ failed' = [failed EXCEPT ![c] = FailedLines(sentToClose[c])]
    /\ result' = [result EXCEPT ![c] = closeInMassError(sentToClose[c])]
    /\ pc' = [pc EXCEPT ![c] = "done"]
    /\ UNCHANGED <<trigger, fcalls, closed, call, count, sentToClose, doneClosers, timer,
                   task, closeErrs, received, atFire>>

\* A success test that never succeeds.
NeverFinished(n, m) == FALSE

\* A success test that is one completion early.
FinishedEarly(n, m) == n <= 1

\* The success test of the completion case.
Finished(n, m) == n = 0 /\ DOMAIN m = {}

\* The completion case: receive a closer, delete its entry, count down, and
\* return nil when nothing is left.
closeInMassDone(c) ==
    /\ ~Crashed
    /\ pc[c] = "select"
    /\ doneClosers[c] # <<>>
    /\ LET closer == Head(doneClosers[c])
           m == MapDelete(sentToClose[c], closer.Index)
           n == count[c] - 1
       IN  /\ doneClosers' = [doneClosers EXCEPT ![c] = Tail(@)]
           /\ sentToClose' = [sentToClose EXCEPT ![c] = m]
           /\ count' = [count EXCEPT ![c] = n]
           /\ received' = [received EXCEPT ![c] = @ \cup {closer.Index}]
           /\ IF Finished(n, m)
              THEN /\ result' = [result EXCEPT ![c] = "nil"]
                   /\ pc' = [pc EXCEPT ![c] = "done"]
              ELSE UNCHANGED <<result, pc>>
    /\ UNCHANGED <<trigger, fcalls, closed, call, timer, task, warned, failed,
                   closeErrs, atFire>>

\* Close called in the order of the indices, each after the one before is done.
MayCloseInTurn(c, i) ==
    /\ task[c][i] = "spawned"
    /\ \A j \in DOMAIN task[c] : j < i => task[c][j] = "sent"

\* A goroutine may call Close as soon as it is started.
MayClose(c, i) == task[c][i] = "spawned"

\* closeObjects starts: closer.C.Close() is called.  (On a nil closer the call
\* itself would panic; getPkgPath has panicked before.)
closeObjectsClose(c, i) ==
    /\ ~Crashed
    /\ i \in DOMAIN task[c]
    /\ MayClose(c, i)
    /\ IF Closable(c, i).close = "none"
       THEN /\ pc' = [pc EXCEPT ![c] = "panic"]
            /\ UNCHANGED <<task, closed>>
       ELSE /\ task' = [task EXCEPT ![c][i] = "closing"]
            /\ closed' = [closed EXCEPT ![c][i] = @ + 1]
            /\ UNCHANGED pc
    /\ UNCHANGED <<trigger, fcalls, call, result, count, sentToClose,
                   doneClosers, timer, warned, failed, closeErrs, received,
                   atFire>>

\* A channel with room for one completion, whatever the batch.
DoneCapOne(c) == 1

\* cap(doneClosers): make(chan closer, count).
DoneCap(c) == N(c)

\* A closeObjects that returns early when Close failed.
SendsAfterSuccess(err) == err = "nil"

\* closeObjects goes on to its send whatever Close returned.
SendsAfter(err) == TRUE

\* Close returns, with nil or with an error, which closeObjects logs, and then
\* done <- closer.  The send waits ("sending") while the channel is full.  A
\* Close that never returns leaves its goroutine in the call for good.
closeObjectsDone(c, i, err) ==
    /\ ~Crashed
    /\ i \in DOMAIN task[c]
    /\ \/ task[c][i] = "closing" /\ Closable(c, i).close = "returns"
       \/ task[c][i] = "sending"
    /\ closeErrs' = [closeErrs EXCEPT ![c] = IF err = "error" THEN @ \cup {i} ELSE @]
    /\ IF ~SendsAfter(err)
       THEN /\ task' = [task EXCEPT ![c][i] = "exited"]
            /\ UNCHANGED doneClosers
       ELSE IF Len(doneClosers[c]) < DoneCap(c)
            THEN /\ doneClosers' = [doneClosers EXCEPT ![c] =
                                       Append(@, MkCloser(i, Closable(c, i)))]
                 /\ task' = [task EXCEPT ![c][i] = "sent"]
            ELSE /\ task' = [task EXCEPT ![c][i] = "sending"]
                 /\ UNCHANGED doneClosers
    /\ UNCHANGED <<trigger, fcalls, closed, pc, call, result, count, sentToClose, timer,
                   warned, failed, received, atFire>>

(***************************************************************************)
(* The specification.                                                      *)
(***************************************************************************)
\* What a Close that returns can return: nil or a non-nil error.
Errors == {"nil", "error"}

\* The indices a batch can have.
AllIndices == 0 .. (MaxClosers - 1)

Next ==
    \/ Notify
    \/ FallOnSword
    \/ listenForSignal
    \/ \E c \in Callers, closable \in Closables(MaxClosers) : WaitForDeathCall(c, closable)
    \/ \E c \in Callers : WaitForDeath(c)
    \/ \E c \in Callers : WaitForDeathWithFuncCall(c)
    \/ \E c \in Callers : WaitForDeathWithFunc(c)
    \/ \E c \in Callers : CallbackReturns(c)
    \/ \E c \in Callers : TimerFires(c)
    \/ \E c \in Callers : closeInMassTimeout(c)
    \/ \E c \in Callers : closeInMassDone(c)
    \/ \E c \in Callers, i \in AllIndices : closeObjectsClose(c, i)
    \/ \E c \in Callers, i \in AllIndices, err \in Errors : closeObjectsDone(c, i, err)

Spec == Init /\ [][Next]_vars

\* What the runtime's scheduling gives: the listener goroutine and the callers
\* run when they can, and a timer that is armed fires.  Nothing is assumed of
\* the closeObjects goroutines, of Close, of the callback or of the host.
Fairness ==
    /\ WF_vars(listenForSignal)
    /\ \A c \in Callers :
          /\ WF_vars(WaitForDeath(c))
          /\ WF_vars(WaitForDeathWithFunc(c))
          /\ WF_vars(TimerFires(c))
          /\ WF_vars(closeInMassTimeout(c) \/ closeInMassDone(c))

FairSpec == Spec /\ Fairness

(***************************************************************************)
(* Properties.                                                             *)
(***************************************************************************)
\* Caller c has passed its wg.Wait().
Passed(c) == pc[c] \notin {"idle", "wait"}

\* Close has been called on index i of batch c.
CloseCalled(c, i) == i \in DOMAIN task[c] /\ task[c][i] # "spawned"

\* C1: a caller of WaitForDeath has not passed its wait, no Close of its batch
\* has been called and it has not returned unless a signal was relayed to
\* sigChannel or FallOnSword was called, and the listener has made the
\* trigger transition (it has consumed one of them and returned).
C1_TriggerBeforeRelease ==
    \A c \in Callers :
        (call[c].op = "WaitForDeath"
            /\ (Passed(c) \/ result[c] # "none" \/ \E i \in AllIndices : CloseCalled(c, i)))
        => (fired /\ listener = "exited" /\ wg = 0)

\* C1's case: the trigger has fired and a Close of a batch has been called.
C1_Witness ==
    \E c \in Callers, i \in AllIndices : call[c].op = "WaitForDeath" /\ CloseCalled(c, i)

\* C2: under fair scheduling, a caller that is blocked in its wait once a
\* signal has been relayed or FallOnSword called, before or after the caller
\* began to wait, eventually passes it (as long as the process lives).
C2_TriggerWakesWaiters ==
    \A c \in Callers : (fired /\ pc[c] = "wait") ~> (Passed(c) \/ Crashed)

\* C2's case: the trigger fired and was consumed before the caller began to
\* wait, and the caller has passed its wait.
C2_Witness ==
    \E c \in Callers, d \in Callers :
        /\ c # d
        /\ pc[c] = "idle" /\ listener = "exited"
        /\ call[d].op = "WaitForDeathWithFunc" /\ Passed(d)

\* C3: a call of FallOnSword can always be made and completes in its one
\* step, whatever has happened before, and callChannel never holds more than
\* one trigger.
C3_FallOnSwordNeverBlocks ==
    /\ Len(callChannel) <= ChanCap
    /\ ~Crashed => ENABLED FallOnSword

\* C3's case: the listener has exited and a trigger posted by FallOnSword
\* stays in callChannel, so that every later call finds the channel full.
C3_Witness ==
    listener = "exited" /\ Len(callChannel) = ChanCap /\ sigChannel # <<>>

\* closeInMass of caller c has returned the timeout error.
TimedOut(c) == result[c] = TimeoutError

\* The indices of batch c logged as "Failed to close".
FailedLogged(c) == DOMAIN failed[c]

\* The closers of batch c whose Close never returns.
Hanging(c) == {i \in Indices(c) : Closable(c, i).close = "never"}

\* C4 as stated: when the timer case is taken, the resources logged as failed
\* are those whose release has not completed, no more and no fewer: none has
\* returned from Close and sent its completion.
C4_FailedAreTheUnreleased ==
    [][\A c \in Callers :
          (pc[c] = "select" /\ pc'[c] = "done" /\ result'[c] = TimeoutError)
          => FailedLogged(c)' = Indices(c) \ Posted(c)]_vars

\* C4, amended: when the timer case is taken the call returns the error and
\* has logged exactly one line for each resource whose completion the
\* coordinator has not received: every resource whose Close has not returned
\* and sent is among them, and so is one whose completion is sent but unread.
C4_FailedAreTheUnreceived ==
    \A c \in Callers :
        TimedOut(c) =>
            /\ pc[c] = "done"
            /\ FailedLogged(c) = Indices(c) \ received[c]
            /\ \A i \in FailedLogged(c) : failed[c][i] = 1
            /\ \A i \in Indices(c) : task[c][i] # "sent" => i \in FailedLogged(c)

\* C4's case: the timer case was taken with several resources pending, one of
\* them with its completion sent before the timer fired.
C4_Witness ==
    \E c \in Callers :
        /\ TimedOut(c)
        /\ Cardinality(FailedLogged(c)) >= 2
        /\ atFire[c].allSent
        /\ \E i \in FailedLogged(c) : task[c][i] = "sent"

\* C5 as stated: if exactly one of the N Close calls never returns and the
\* other N-1 have returned (and sent) before the timer fires, the failing set
\* reported with the timeout error is exactly that one resource.
C5_OnlyTheHangingOneFails ==
    \A c \in Callers :
        (/\ TimedOut(c)
         /\ Cardinality(Hanging(c)) = 1
         /\ atFire[c].allSent)
        => FailedLogged(c) = Hanging(c)

\* C5, amended: if exactly one of the N Close calls never returns, closeInMass
\* never returns nil, the failing set of its timeout always holds that
\* resource, and it holds none of the others when the coordinator has received
\* their N-1 completions before it takes the timer case.
C5_TheHangingOneFails ==
    \A c \in Callers :
        Cardinality(Hanging(c)) = 1 =>
            /\ result[c] # "nil"
            /\ TimedOut(c) => Hanging(c) \subseteq FailedLogged(c)
            /\ (TimedOut(c) /\ received[c] = Indices(c) \ Hanging(c))
               => FailedLogged(c) = Hanging(c)

\* C5's case: a batch of several resources, one of which hangs, has timed out
\* after the completions of all the others were received.
C5_Witness ==
    \E c \in Callers :
        /\ TimedOut(c)
        /\ N(c) >= 2
        /\ Cardinality(Hanging(c)) = 1
        /\ received[c] = Indices(c) \ Hanging(c)

\* C6 as stated: when all N >= 1 Close calls have returned and sent their
\* completion before the timer fires, closeInMass never returns the timeout
\* error.
C6_AllSentNeverTimesOut ==
    \A c \in Callers :
        (N(c) >= 1 /\ Hanging(c) = {} /\ atFire[c].fired /\ atFire[c].allSent)
        => ~TimedOut(c)

\* C6, amended: for N >= 1 resources, closeInMass returns nil as soon as the
\* coordinator has received all N completions, and it returns the timeout
\* error only when the timer has fired and the coordinator takes the timer
\* case with a completion not yet received (sent or not).
C6_AllReceivedNeverTimesOut ==
    \A c \in Callers :
        /\ (N(c) >= 1 /\ received[c] = Indices(c)) => result[c] = "nil"
        /\ TimedOut(c) => (timer[c] = "fired" /\ received[c] # Indices(c))

\* C6's case: a batch all of whose Close calls returned has ended with nil
\* before the timer fired.
C6_Witness ==
    \E c \in Callers :
        /\ N(c) >= 2
        /\ result[c] = "nil"
        /\ timer[c] = "armed"
        /\ Posted(c) = Indices(c)

\* C7: under fair scheduling of the coordinator and with a timer that fires,
\* a closeInMass that has reached its select loop returns, whichever of its
\* Close calls never return (as long as the process lives).
C7_CloseInMassReturns ==
    \A c \in Callers : (pc[c] = "select") ~> (pc[c] = "done" \/ Crashed)

\* C7's case: closeInMass has returned although a Close of its batch hangs.
C7_Witness ==
    \E c \in Callers :
        /\ pc[c] = "done"
        /\ \E i \in Hanging(c) : task[c][i] = "closing"

\* C8: a Close that returned an error is a completion like any other:
\* closeObjects has logged the error and sent the resource to the channel,
\* where it is waiting or from where the coordinator has received it; no
\* resource is logged as failed for the error of its Close.
C8_ErrorsAreCompletions ==
    \A c \in Callers : \A i \in closeErrs[c] :
        /\ task[c][i] = "sent"
        /\ \/ i \in received[c]
           \/ \E k \in 1..Len(doneClosers[c]) : doneClosers[c][k].Index = i
        /\ i \in received[c] => i \notin FailedLogged(c)

\* C8's case: every Close of a batch returned an error and closeInMass
\* returned nil.
C8_Witness ==
    \E c \in Callers :
        /\ N(c) >= 2
        /\ closeErrs[c] = Indices(c)
        /\ result[c] = "nil"

\* C9: in a batch that has started, every resource has its own goroutine,
\* whose Close can be called, and whose completion can be sent once Close has
\* returned, whatever the state of the other goroutines; no send ever waits
\* for room in the channel, and the coordinator can receive what is there.
C9_AttemptsAreIsolated ==
    \A c \in Callers :
        (pc[c] \in {"select", "done"} /\ N(c) >= 1 /\ ~Crashed) =>
            /\ DOMAIN task[c] = Indices(c)
            /\ \A i \in Indices(c) :
                  /\ task[c][i] = "spawned" => ENABLED closeObjectsClose(c, i)
                  /\ (task[c][i] = "closing" /\ i \notin Hanging(c))
                     => \A err \in Errors : ENABLED closeObjectsDone(c, i, err)
                  /\ task[c][i] # "sending"
            /\ (pc[c] = "select" /\ doneClosers[c] # <<>>) => ENABLED closeInMassDone(c)

\* C9's case: one Close of a batch hangs, and the completion of another
\* resource of the batch, started after it, has been received.
C9_Witness ==
    \E c \in Callers : \E i \in Hanging(c) : \E j \in received[c] :
        i < j /\ task[c][i] = "closing"

\* C10: a WaitForDeath with no closer, once past its wait, has returned nil:
\* no closeObjects goroutine was started and no timer created.
C10_NoClosersNoBatch ==
    \A c \in Callers :
        (call[c].op = "WaitForDeath" /\ N(c) = 0 /\ Passed(c)) =>
            /\ pc[c] = "done"
            /\ result[c] = "nil"
            /\ timer[c] = "none"
            /\ DOMAIN task[c] = {}

\* C10's case: a WaitForDeath with no closer has returned.
C10_Witness ==
    \E c \in Callers :
        call[c].op = "WaitForDeath" /\ N(c) = 0 /\ pc[c] = "done"

\* The timer case of batch c was taken: its Warn line was written.
TimerCaseTaken(c) == warned[c] # -1

\* The resources of batch c logged as "Failed to close", each by the package
\* path and the name of its line.
PendingLabels(c) ==
    {<<sentToClose[c][i].PKGPath, sentToClose[c][i].Name>> : i \in FailedLogged(c)}

Triggered == wg = 0

\* Caller c's wg.Wait() can return now.
CanPass(c) == ENABLED (WaitForDeath(c) \/ WaitForDeathWithFunc(c))

\* C12: the trigger is a one-way latch.  The controller starts armed, the
\* counter goes from one to zero when the listener consumes a signal or a
\* manual trigger and never leaves zero again, and a WaitForDeath or
\* WaitForDeathWithFunc that waits once the counter is zero can pass, for as
\* long as the process lives.
C12_TriggerIsALatch ==
    /\ ~Triggered
    /\ [][/\ Triggered => Triggered'
          /\ (~Triggered /\ Triggered') =>
                (listener = "running" /\ listener' = "exited"
                    /\ (sigChannel' # sigChannel \/ callChannel' # callChannel))
         ]_vars
    /\ [](\A c \in Callers :
            (Triggered /\ pc[c] = "wait" /\ ~Crashed) => CanPass(c))

\* C12's case: the counter is zero and both callers have passed their wait
\* on the one trigger, a WaitForDeath and a WaitForDeathWithFunc.
C12_Witness ==
    \E c, d \in Callers :
        /\ c # d
        /\ Triggered
        /\ pc[c] = "done" /\ pc[d] = "callback"

\* C13 as stated: exactly one waiter is let through, so that a controller
\* never has more than one release batch in flight.
C13_OneBatchInFlight ==
    \A c, d \in Callers : (pc[c] = "select" /\ pc[d] = "select") => c = d

\* C13: the trigger lets every waiter through.  A WaitForDeath that waits
\* while another caller's release batch is in flight, or after it has
\* returned, can pass and start a batch of its own.
C13_EveryWaiterPasses ==
    \A c, d \in Callers :
        (/\ c # d
         /\ pc[c] \in {"select", "callback", "done"}
         /\ pc[d] = "wait"
         /\ ~Crashed) => CanPass(d)

\* C13's case: two release batches are in flight at the same time.
C13_Witness ==
    \E c, d \in Callers :
        /\ c # d
        /\ pc[c] = "select" /\ pc[d] = "select"
        /\ timer[c] = "armed" /\ timer[d] = "armed"

\* C14: WaitForDeathWithFunc calls f once per call, after the trigger has
\* fired, on the caller's own goroutine and with no timer: the caller is
\* inside f until f returns, and has returned only when f has.  A caller
\* whose f never returns stays inside it.
C14_CallbackOnceAndSynchronous ==
    \A c \in Callers :
        call[c].op = "WaitForDeathWithFunc" =>
            /\ fcalls[c].invoked = (IF Passed(c) THEN 1 ELSE 0)
            /\ fcalls[c].returned = (IF pc[c] = "done" THEN 1 ELSE 0)
            /\ Passed(c) => (fired /\ Triggered)
            /\ pc[c] \in {"idle", "wait", "callback", "done"}
            /\ pc[c] = "callback" => result[c] = "none"
            /\ timer[c] = "none" /\ DOMAIN task[c] = {}

\* C14's case: one caller is inside its f, which has not returned, while
\* the other caller's f has returned and its WaitForDeathWithFunc with it.
C14_Witness ==
    \E c, d \in Callers :
        /\ call[c].op = "WaitForDeathWithFunc" /\ pc[c] = "callback"
        /\ call[d].op = "WaitForDeathWithFunc" /\ pc[d] = "done"
        /\ fcalls[d].returned = 1

\* The closers of the batch of caller c that have no name to derive: the nil
\* closer and the one of an unnamed type.
Unlabelled(c) == {i \in Indices(c) : Closable(c, i) \in {NilCloser, HangCloser}}

\* C15 as stated: deriving the name and origin never aborts.  Once a
\* WaitForDeath with closers is past its wait, no goroutine has panicked,
\* every closer of the call has its closeObjects goroutine and its entry of
\* the pending map, and a nil closer or one of an unnamed type has the empty
\* name and origin.
C15_LabelFailureNeverAborts ==
    \A c \in Callers :
        (call[c].op = "WaitForDeath" /\ N(c) > 0 /\ Passed(c)) =>
            /\ pc[c] # "panic"
            /\ DOMAIN task[c] = Indices(c)
            /\ \A i \in Unlabelled(c) :
                   i \in received[c] \/
                       (i \in DOMAIN sentToClose[c]
                           /\ sentToClose[c][i].Name = ""
                           /\ sentToClose[c][i].PKGPath = "")

\* C16: closeInMass over N >= 1 closers has returned nil exactly when the
\* coordinator has received all N completions, and then every Close was
\* called and has returned; nil is returned at the step that receives the
\* N-th completion, which leaves the timer as it is, fired or not.
C16_NilAtTheLastCompletion ==
    /\ [](\A c \in Callers :
            (call[c].op = "WaitForDeath" /\ N(c) > 0) =>
                /\ result[c] = "nil" <=> received[c] = Indices(c)
                /\ result[c] = "nil" =>
                       /\ pc[c] = "done"
                       /\ \A i \in Indices(c) :
                              task[c][i] = "sent" /\ closed[c][i] = 1)
    /\ [][\A c \in Callers :
            (N(c) > 0 /\ result[c] # "nil" /\ result'[c] = "nil") =>
                /\ Cardinality(received[c]) = N(c) - 1
                /\ received'[c] = Indices(c)
                /\ Len(doneClosers'[c]) = Len(doneClosers[c]) - 1
                /\ timer'[c] = timer[c]
         ]_vars

\* C16's case: a batch of two closers has returned nil while its timer was
\* still running.
C16_Witness ==
    \E c \in Callers :
        /\ N(c) = 2
        /\ result[c] = "nil"
        /\ received[c] = Indices(c)
        /\ timer[c] = "armed"

\* The pending set of batch c: the indices that have an entry in sentToClose.
Pending(c) == DOMAIN sentToClose[c]

\* C17: the pending set of a batch only shrinks.  It holds every index
\* 0..N-1 when the select loop starts, it is at all times the indices whose
\* completion has not been received, a step that receives the completion of
\* index i removes i and nothing else, no step adds an index, and the timer
\* case logs every index that is then pending as failed.
C17_PendingOnlyShrinks ==
    /\ [](\A c \in Callers :
            pc[c] \in {"select", "done"} /\ N(c) > 0 =>
                /\ Pending(c) = Indices(c) \ received[c]
                /\ TimerCaseTaken(c) => FailedLogged(c) = Pending(c))
    /\ [][\A c \in Callers :
            /\ pc[c] = "wait" /\ pc'[c] = "select" => Pending(c)' = Indices(c)
            /\ pc[c] \in {"select", "done"} =>
                /\ Pending(c)' \subseteq Pending(c)
                /\ Pending(c) \ Pending(c)' = received'[c] \ received[c]
                /\ Cardinality(Pending(c) \ Pending(c)') <= 1
         ]_vars

\* C17's case: a batch of two closers timed out after one completion had
\* been received, with the other index still pending and logged as failed.
C17_Witness ==
    \E c \in Callers :
        /\ N(c) = 2
        /\ TimerCaseTaken(c)
        /\ Cardinality(received[c]) = 1
        /\ Pending(c) = Indices(c) \ received[c]
        /\ FailedLogged(c) = Pending(c)

\* How many completions tagged i were written to doneClosers of batch c:
\* those still in the channel and the one received.
Tagged(c, i) ==
    Cardinality({k \in 1..Len(doneClosers[c]) : doneClosers[c][k].Index = i})
        + (IF i \in received[c] THEN 1 ELSE 0)

\* C18: in a batch, each position i of the list has one closeObjects
\* goroutine, which calls Close once and writes one completion, tagged i,
\* after Close has returned, and none before.  A closer that is in the list
\* several times has one index, one Close call and one completion per
\* occurrence, and nil is returned only after all of them.
C18_OneCloseOneCompletionPerIndex ==
    \A c \in Callers :
        (call[c].op = "WaitForDeath" /\ N(c) > 0 /\ pc[c] \in {"select", "done"}) =>
            /\ DOMAIN task[c] = Indices(c)
            /\ \A i \in Indices(c) :
                /\ closed[c][i] = (IF task[c][i] = "spawned" THEN 0 ELSE 1)
                /\ Tagged(c, i) = (IF task[c][i] = "sent" THEN 1 ELSE 0)
                /\ i \in Pending(c) =>
                       /\ sentToClose[c][i].Index = i
                       /\ sentToClose[c][i].C = Closable(c, i)
            /\ result[c] = "nil" =>
                   \A i \in Indices(c) : closed[c][i] = 1 /\ Tagged(c, i) = 1

\* C18's case: the same closer was passed twice, Close was called once for
\* each occurrence, and one of the two completions has been received while
\* the other is still in the channel.
C18_Witness ==
    \E c \in Callers :
        /\ pc[c] = "select"
        /\ call[c].closable = <<PtrCloser, PtrCloser>>
        /\ closed[c] = [i \in Indices(c) |-> 1]
        /\ Cardinality(received[c]) = 1
        /\ Len(doneClosers[c]) = 1

\* C19: a timeout abandons the attempts, it does not cancel them.  The
\* channel of a batch never holds more than its N completions and no send
\* to it ever waits; after closeInMass has returned the timeout error, a
\* closeObjects goroutine that has not called Close yet can still call it,
\* one whose Close returns can log and send its completion and is then done,
\* and the only goroutines that cannot go on are those whose Close never
\* returns.
C19_AbandonedAttemptsFinish ==
    \A c \in Callers :
        (call[c].op = "WaitForDeath" /\ N(c) > 0 /\ pc[c] \in {"select", "done"}) =>
            /\ Len(doneClosers[c]) <= N(c)
            /\ \A i \in Indices(c) : task[c][i] \in {"spawned", "closing", "sent"}
            /\ (TimedOut(c) /\ ~Crashed) =>
                   \A i \in Indices(c) :
                       /\ task[c][i] = "spawned" => ENABLED closeObjectsClose(c, i)
                       /\ (task[c][i] = "closing" /\ i \notin Hanging(c)) =>
                              \A err \in Errors : ENABLED closeObjectsDone(c, i, err)
                       /\ (task[c][i] = "closing" /\ i \in Hanging(c)) =>
                              \A err \in Errors : ~ENABLED closeObjectsDone(c, i, err)

\* C19's case: closeInMass of a batch of two has returned the timeout error
\* with no completion received, not every completion had been sent when the
\* timer fired, and both goroutines have sent theirs since and are done: the
\* channel holds both.
C19_Witness ==
    \E c \in Callers :
        /\ N(c) = 2
        /\ TimedOut(c)
        /\ ~atFire[c].allSent
        /\ received[c] = {}
        /\ Len(doneClosers[c]) = 2
        /\ \A i \in Indices(c) : task[c][i] = "sent"

\* C20: in every iteration of the select loop, and when closeInMass has
\* returned, count is the size of sentToClose and N less the completions
\* received; it is never negative; the number of the Warn line is the number
\* of "Failed to close" lines that follow it; and the two halves of the
\* success test, count == 0 and len(sentToClose) == 0, are true together.
C20_CountIsThePendingSize ==
    \A c \in Callers :
        (call[c].op = "WaitForDeath" /\ N(c) > 0 /\ pc[c] \in {"select", "done"}) =>
            /\ count[c] = Cardinality(Pending(c))
            /\ count[c] = N(c) - Cardinality(received[c])
            /\ count[c] >= 0
            /\ count[c] = 0 <=> Pending(c) = {}
            /\ TimerCaseTaken(c) =>
                   /\ warned[c] = Cardinality(FailedLogged(c))
                   /\ warned[c] = count[c]
                   /\ warned[c] > 0

\* C20's case: a batch of two has received one completion and then taken
\* the timer case, which announced one remaining object.
C20_Witness ==
    \E c \in Callers :
        /\ N(c) = 2
        /\ TimerCaseTaken(c)
        /\ Cardinality(received[c]) = 1
        /\ warned[c] = 1
        /\ count[c] = 1

====
